---------------------------- MODULE Spec2Model ----------------------------
(***************************************************************************)
(* A model of aitios-scene: the de-interleaved indexed mesh buffer         *)
(* (src/src/mesh/deinterleaved.rs), its vertex iterator, the triangle      *)
(* grouping iterator (src/src/mesh/triangle.rs), the derived operations of *)
(* the Mesh trait (src/src/mesh/mesh.rs), construction of a buffer from a  *)
(* vertex stream (FromIterator::from_iter), materials and their builder    *)
(* (src/src/material.rs) and entities that share materials by reference    *)
(* counting (src/src/entity.rs).                                           *)
(*                                                                         *)
(* Conventions.                                                            *)
(*  - Rust sequences are 0-based, TLA+ sequences 1-based: v[i] in the code *)
(*    is v[i + 1] here and the slice v[a..b] is SubSeq(v, a + 1, b).       *)
(*  - f32 values are only copied by the buffer and its iterators; they     *)
(*    are small integer codes there and "equal" means "the same value".    *)
(*    Only centroid computes with them: there the code p is the number p   *)
(*    and f32 is a binary floating point format with rounding to nearest,  *)
(*    ties to even, and MantissaBits bits of precision instead of 24.      *)
(*  - usize is taken to be 64 bits wide, the only width at which a Vec     *)
(*    can hold more than u32::MAX elements; no usize computation of the    *)
(*    modelled code can then overflow (3 * (idx + 1) with idx < 2^32).     *)
(*  - u32 is modelled with IndexBits bits instead of 32, so that the       *)
(*    conversion `len as u32` is driven past its range by a stream of      *)
(*    2^IndexBits + 1 vertices.                                            *)
(*  - Option<T> is a sequence of length 0 (None) or 1 (Some(x)).           *)
(*  - A panic ends the thread: fault names the operation that panicked     *)
(*    and nothing runs after it.                                           *)
(***************************************************************************)
EXTENDS Integers, Sequences, FiniteSets, TLC

VARIABLES
    buf,        \* the DeinterleavedIndexedMeshBuf all iterators borrow
    iters,      \* IterIds -> DeinterleavedIndexedMeshBufIter {next_indices_idx}
    yielded,    \* history: IterIds -> the vertices next() has returned so far
    nones,      \* history: IterIds -> how many times next() has returned None
    tri,        \* a TriangleMeshIter {vertex_iter} over buf
    triOut,     \* history: the triangles tri.next() has returned so far
    triNones,   \* history: how many times tri.next() has returned None
    fault,      \* "none", or the operation whose panic ended the thread
    ret,        \* the outcome of the last direct call of vertex_at
    col,        \* the buffer collected from buf.vertices()
    col2,       \* the buffer collected from col.vertices()
    colIter,    \* the vertex iterator the running from_iter consumes
    colState,   \* where the round trip stands
    stream,     \* history: the vertices the first from_iter has consumed
    stream2,    \* history: the vertices the second from_iter has consumed
    centroidOut, \* the outcome of the last call of centroid
    mat,        \* the Material the first build() returned, if any
    builder,    \* the MaterialBuilder in use, if any
    phase,      \* where the derivation of a material stands
    lastSet,    \* history: map -> the path its setter was last given since from()
    nameSet,    \* history: the name the name setter was last given since from()
    lastCall,   \* history: the last map setter call, the builder before and after
    setterCalls, \* history: how many map setter calls were made
    derivedFrom, \* history: the material as it was when from() cloned it
    result,     \* the Material the derived builder's build() returned, if any
    heap,       \* the Rc<Material> allocations made so far
    held,       \* the allocations the creator holds a handle of
    entities,   \* entity name -> the Entity of that name, if it is alive
    lastReassign \* history: the entity last reassigned and its material before

meshVars == <<buf, iters, yielded, nones, tri, triOut, triNones, fault, ret,
              col, col2, colIter, colState, stream, stream2>>
builderVars == <<mat, builder, phase, lastSet, nameSet, lastCall, setterCalls,
                 derivedFrom, result>>
entityVars == <<heap, held, entities, lastReassign>>

vars == <<buf, iters, yielded, nones, tri, triOut, triNones, fault, ret,
          col, col2, colIter, colState, stream, stream2, centroidOut,
          mat, builder, phase, lastSet, nameSet, lastCall, setterCalls,
          derivedFrom, result,
          heap, held, entities, lastReassign>>

panicked == fault # "none"

---------------------------------------------------------------------------
(* Bounds of the model.                                                    *)

\* Most attribute sets a buffer stores.
MaxSets == 2
\* Most floats missing at the end of an attribute sequence (a sequence that
\* does not end on a whole attribute set).
MaxTrim == 1
\* Longest index sequence where triangles are grouped.
MaxIndices == 6
\* Longest index sequence where several iterators share a buffer.
MaxShareIndices == 3
\* Longest index sequence where vertex_at may fault.
MaxFaultIndices == 3
\* Longest index sequence of a buffer that is collected into a new one.
MaxCollect == 5
\* Width of the index type in the model (u32 in the code).
IndexBits == 2
\* next() is called at most this many times on an exhausted iterator.
MaxNones == 2

IterIds == {"iter", "iter2"}

---------------------------------------------------------------------------
(* Values.                                                                 *)

None == << >>
Some(x) == << x >>

\* geom::Vertex: position (3 floats), normal (3 floats), texcoords (2 floats).
\* All eight components of a vertex differ and no two distinct vertices
\* share a component, so any mix-up of components or attributes shows.
Vtx(t) ==
    [position  |-> << 8 * t + 1, 8 * t + 2, 8 * t + 3 >>,
     normal    |-> << 8 * t + 4, 8 * t + 5, 8 * t + 6 >>,
     texcoords |-> << 8 * t + 7, 8 * t + 8 >>]

\* The vertex values stored in buffers: two, so that stored attribute sets
\* can differ and can repeat. The code copies values and never inspects them.
Tags == {0, 1}

SeqsUpTo(S, n) == UNION { [1 .. m -> S] : m \in 0 .. n }

\* The flat attribute sequences that store the vertices Vtx(ts[1]), ...
PositionsOf(ts) ==
    [j \in 1 .. 3 * Len(ts) |-> Vtx(ts[((j - 1) \div 3) + 1]).position[((j - 1) % 3) + 1]]
NormalsOf(ts) ==
    [j \in 1 .. 3 * Len(ts) |-> Vtx(ts[((j - 1) \div 3) + 1]).normal[((j - 1) % 3) + 1]]
TexcoordsOf(ts) ==
    [j \in 1 .. 2 * Len(ts) |-> Vtx(ts[((j - 1) \div 2) + 1]).texcoords[((j - 1) % 2) + 1]]

Trim(s, d) == SubSeq(s, 1, IF Len(s) >= d THEN Len(s) - d ELSE 0)

\* The attribute sequences of a buffer: up to MaxSets stored vertices; one
\* of the three sequences may be up to `trim` floats short of that.
AttrConfigs(trim) ==
    { [positions |-> Trim(PositionsOf(ts), IF w = "positions" THEN d ELSE 0),
       normals   |-> Trim(NormalsOf(ts), IF w = "normals" THEN d ELSE 0),
       texcoords |-> Trim(TexcoordsOf(ts), IF w = "texcoords" THEN d ELSE 0)] :
         ts \in SeqsUpTo(Tags, MaxSets),
         w \in {"positions", "normals", "texcoords"},
         d \in 0 .. trim }

WithIndices(a, ix) ==
    [positions |-> a.positions, normals |-> a.normals,
     texcoords |-> a.texcoords, indices |-> ix]

\* The index values that satisfy the buffer invariant for attributes a.
ValidIdx(a) ==
    { i \in 0 .. MaxSets :
        /\ 3 * (i + 1) <= Len(a.positions)
        /\ 3 * (i + 1) <= Len(a.normals)
        /\ 2 * (i + 1) <= Len(a.texcoords) }

\* buf is a buffer built directly from vectors by a caller that keeps the
\* buffer invariant: at most n index entries, each within the attributes.
ValidBuffer(trim, n) ==
    \E a \in AttrConfigs(trim) : \E m \in 0 .. n :
        \E ix \in [1 .. m -> ValidIdx(a)] : buf = WithIndices(a, ix)

\* buf is a buffer built directly from vectors by any caller.
AnyBuffer(trim, n) ==
    \E a \in AttrConfigs(trim) : \E m \in 0 .. n :
        \E ix \in [1 .. m -> 0 .. MaxSets] : buf = WithIndices(a, ix)

\* deinterleaved.rs:151-156, the buffer from_iter starts from.
EmptyBuf ==
    [positions |-> << >>, normals |-> << >>, texcoords |-> << >>, indices |-> << >>]

---------------------------------------------------------------------------
(* DeinterleavedIndexedMeshBuf.                                            *)

\* Mesh::vertex_count for the buffer: self.indices.len().
vertex_count(b) == Len(b.indices)

\* Mutant of triangle_count: the division rounds up.
triangle_count_rounding_up(b) == (vertex_count(b) + 2) \div 3

\* Mesh::triangle_count: self.vertex_count() / 3, usize division.
triangle_count(b) == vertex_count(b) \div 3

\* vertex_at panics on the index expression self.indices[index_index] and
\* on each of the three range-checked slices [idx * k .. (idx + 1) * k].
vertex_at_panics(b, index_index) ==
    \/ index_index >= Len(b.indices)
    \/ LET idx == b.indices[index_index + 1]
       IN  \/ (idx + 1) * 3 > Len(b.positions)
           \/ (idx + 1) * 3 > Len(b.normals)
           \/ (idx + 1) * 2 > Len(b.texcoords)

\* Mutant of vertex_at: the normal is sliced from positions.
vertex_at_normal_from_positions(b, index_index) ==
    LET idx       == b.indices[index_index + 1]
        position  == SubSeq(b.positions, idx * 3 + 1, (idx + 1) * 3)
        normal    == SubSeq(b.positions, idx * 3 + 1, (idx + 1) * 3)
        texcoords == SubSeq(b.texcoords, idx * 2 + 1, (idx + 1) * 2)
    IN  [position  |-> << position[1], position[2], position[3] >>,
         normal    |-> << normal[1], normal[2], normal[3] >>,
         texcoords |-> << texcoords[1], texcoords[2] >>]

\* The Vertex vertex_at assembles when it does not panic.
vertex_at(b, index_index) ==
    LET idx       == b.indices[index_index + 1]
        position  == SubSeq(b.positions, idx * 3 + 1, (idx + 1) * 3)
        normal    == SubSeq(b.normals, idx * 3 + 1, (idx + 1) * 3)
        texcoords == SubSeq(b.texcoords, idx * 2 + 1, (idx + 1) * 2)
    IN  [position  |-> << position[1], position[2], position[3] >>,
         normal    |-> << normal[1], normal[2], normal[3] >>,
         texcoords |-> << texcoords[1], texcoords[2] >>]

\* IntoIterator for &DeinterleavedIndexedMeshBuf, and Mesh::vertices.
into_iter == [next_indices_idx |-> 0]

\* Mutant of next: a faulting entry is swallowed and reported as the end.
next_swallowing_fault(it, b) ==
    LET idx == it.next_indices_idx
    IN  IF idx >= Len(b.indices)
        THEN [iter |-> it, panic |-> FALSE, item |-> None]
        ELSE [iter  |-> [next_indices_idx |-> idx + 1],
              panic |-> FALSE,
              item  |-> IF vertex_at_panics(b, idx) THEN None
                        ELSE Some(vertex_at(b, idx))]

\* Mutant of next: an exhausted iterator starts over with the next call.
next_restarting(it, b) ==
    LET idx == it.next_indices_idx
    IN  IF idx >= Len(b.indices)
        THEN [iter |-> [next_indices_idx |-> 0], panic |-> FALSE, item |-> None]
        ELSE [iter  |-> [next_indices_idx |-> idx + 1],
              panic |-> vertex_at_panics(b, idx),
              item  |-> IF vertex_at_panics(b, idx) THEN None
                        ELSE Some(vertex_at(b, idx))]

\* Mutant of next: the cursor moves on with every call, also past the end.
next_advancing_past_end(it, b) ==
    LET idx == it.next_indices_idx
    IN  IF idx >= Len(b.indices)
        THEN [iter  |-> [next_indices_idx |-> idx + 1],
              panic |-> FALSE, item |-> None]
        ELSE [iter  |-> [next_indices_idx |-> idx + 1],
              panic |-> vertex_at_panics(b, idx),
              item  |-> IF vertex_at_panics(b, idx) THEN None
                        ELSE Some(vertex_at(b, idx))]

\* DeinterleavedIndexedMeshBufIter::next on iterator `it` over buffer b:
\* the iterator afterwards, whether the call panicked, and the item.
\* The cursor is advanced before vertex_at is called.
DeinterleavedIndexedMeshBufIter_next(it, b) ==
    LET idx == it.next_indices_idx
    IN  IF idx >= Len(b.indices)
        THEN [iter |-> it, panic |-> FALSE, item |-> None]
        ELSE [iter  |-> [next_indices_idx |-> idx + 1],
              panic |-> vertex_at_panics(b, idx),
              item  |-> IF vertex_at_panics(b, idx) THEN None
                        ELSE Some(vertex_at(b, idx))]

\* The whole vertex stream of b: what a fresh buf.vertices() returns, call
\* after call of next(), up to its first None (or its panic).
RECURSIVE Drain(_, _)
Drain(it, b) ==
    LET r == DeinterleavedIndexedMeshBufIter_next(it, b)
    IN  IF r.item = None THEN << >> ELSE r.item \o Drain(r.iter, b)

vertices(b) == Drain(into_iter, b)

---------------------------------------------------------------------------
(* TriangleMeshIter.                                                       *)

\* Mesh::triangles: TriangleMeshIter::new(self.vertices()).
triangles == [vertex_iter |-> into_iter]

\* Mutant of TriangleMeshIter::next: the triangle is built as (v0, v2, v1).
TriangleMeshIter_next_swapped(t, b) ==
    LET r0 == DeinterleavedIndexedMeshBufIter_next(t.vertex_iter, b)
        r1 == DeinterleavedIndexedMeshBufIter_next(r0.iter, b)
        r2 == DeinterleavedIndexedMeshBufIter_next(r1.iter, b)
    IN  [iter  |-> [vertex_iter |-> r2.iter],
         panic |-> r0.panic \/ r1.panic \/ r2.panic,
         item  |-> IF r0.item # None /\ r1.item # None /\ r2.item # None
                   THEN Some(<< r0.item[1], r2.item[1], r1.item[1] >>)
                   ELSE None]

\* TriangleMeshIter::next: the tuple (next(), next(), next()) is evaluated
\* in full, left to right, before it is matched.
TriangleMeshIter_next(t, b) ==
    LET r0 == DeinterleavedIndexedMeshBufIter_next(t.vertex_iter, b)
        r1 == DeinterleavedIndexedMeshBufIter_next(r0.iter, b)
        r2 == DeinterleavedIndexedMeshBufIter_next(r1.iter, b)
    IN  [iter  |-> [vertex_iter |-> r2.iter],
         panic |-> r0.panic \/ r1.panic \/ r2.panic,
         item  |-> IF r0.item # None /\ r1.item # None /\ r2.item # None
                   THEN Some(<< r0.item[1], r1.item[1], r2.item[1] >>)
                   ELSE None]

---------------------------------------------------------------------------
(* FromIterator<V> for DeinterleavedIndexedMeshBuf.                        *)

\* `buf.indices.len() as u32`: the conversion keeps the low bits.
as_u32(n) == n % (2 ^ IndexBits)

\* Mutant of the closure: a vertex equal to the one stored last is not
\* stored again, its index refers to the stored one.
from_iter_push_dedup(b, vtx) ==
    LET n == Len(b.indices)
        same == /\ n > 0
                /\ SubSeq(b.positions, Len(b.positions) - 2, Len(b.positions))
                     = vtx.position
                /\ SubSeq(b.normals, Len(b.normals) - 2, Len(b.normals))
                     = vtx.normal
                /\ SubSeq(b.texcoords, Len(b.texcoords) - 1, Len(b.texcoords))
                     = vtx.texcoords
    IN  IF same
        THEN [b EXCEPT !.indices = Append(@, b.indices[n])]
        ELSE [positions |-> b.positions \o vtx.position,
              normals   |-> b.normals \o vtx.normal,
              texcoords |-> b.texcoords \o vtx.texcoords,
              indices   |-> Append(b.indices, Len(b.positions) \div 3)]

\* Mutant of the closure: the texture coordinates are pushed as (y, x).
from_iter_push_tex_swapped(b, vtx) ==
    [positions |-> b.positions \o << vtx.position[1], vtx.position[2], vtx.position[3] >>,
     normals   |-> b.normals \o << vtx.normal[1], vtx.normal[2], vtx.normal[3] >>,
     texcoords |-> b.texcoords \o << vtx.texcoords[2], vtx.texcoords[1] >>,
     indices   |-> Append(b.indices, Len(b.indices) % (2 ^ IndexBits))]

\* The closure from_iter runs for each vertex of the stream: one attribute
\* set is appended, and the index of the vertex is the length of indices
\* before the push, converted to the index type.
from_iter_push(b, vtx) ==
    LET idx == as_u32(Len(b.indices))
    IN  [positions |-> b.positions \o << vtx.position[1], vtx.position[2], vtx.position[3] >>,
         normals   |-> b.normals \o << vtx.normal[1], vtx.normal[2], vtx.normal[3] >>,
         texcoords |-> b.texcoords \o << vtx.texcoords[1], vtx.texcoords[2] >>,
         indices   |-> Append(b.indices, idx)]

---------------------------------------------------------------------------
(* f32 arithmetic and Mesh::centroid (src/src/mesh/mesh.rs). A finite f32  *)
(* that is not negative is the fraction << num, den >> in lowest terms,    *)
(* den being a power of two; << 1, 0 >> is +infinity and << 0, 0 >> is     *)
(* NaN. The float that a buffer stores under code p has the value p.       *)

\* Precision of f32 in the model, in bits (24 in the code).
MantissaBits == 8
\* Longest index sequence of a buffer whose centroid is taken.
MaxMeanIndices == 4

\* The binary exponents of the values that occur.
Exponents == (0 - MantissaBits - 4) .. MantissaBits

NaN == << 0, 0 >>
Infinity == << 1, 0 >>

RECURSIVE Lowest(_, _)
Lowest(num, den) ==
    IF num % 2 = 0 /\ den % 2 = 0 /\ den > 1
    THEN Lowest(num \div 2, den \div 2)
    ELSE << num, den >>

\* Rounding of the exact value num / den (den > 0) to the nearest float,
\* ties to the even mantissa: the result of every f32 operation.
f32_round(num, den) ==
    IF num = 0 THEN << 0, 1 >>
    ELSE LET scaled(e) == << num * 2 ^ (IF e < 0 THEN 0 - e ELSE 0),
                             den * 2 ^ (IF e > 0 THEN e ELSE 0) >>
             e == CHOOSE x \in Exponents :
                      /\ 2 ^ (MantissaBits - 1) * scaled(x)[2] <= scaled(x)[1]
                      /\ scaled(x)[1] < 2 ^ MantissaBits * scaled(x)[2]
             q == scaled(e)[1] \div scaled(e)[2]
             r == scaled(e)[1] % scaled(e)[2]
             m == IF 2 * r > scaled(e)[2] \/ (2 * r = scaled(e)[2] /\ q % 2 = 1)
                  THEN q + 1 ELSE q
         IN  IF e >= 0 THEN << m * 2 ^ e, 1 >> ELSE Lowest(m, 2 ^ (0 - e))

\* `n as f32` for a usize n.
usize_as_f32(n) == f32_round(n, 1)

\* f32::recip: 1.0 / x.
f32_recip(x) == IF x[1] = 0 THEN Infinity ELSE f32_round(x[2], x[1])

\* f32 multiplication and addition of finite values that are not negative
\* (infinity times zero is NaN).
f32_mul(x, y) ==
    IF x[2] = 0 \/ y[2] = 0
    THEN (IF x = NaN \/ y = NaN \/ x[1] = 0 \/ y[1] = 0 THEN NaN ELSE Infinity)
    ELSE f32_round(x[1] * y[1], x[2] * y[2])
f32_add(x, y) == f32_round(x[1] * y[2] + y[1] * x[2], x[2] * y[2])

\* Vector3<f32>: zero, addition, and the sum of an iterator (a fold from
\* zero in the iterator's order).
Vec3_zero == << << 0, 1 >>, << 0, 1 >>, << 0, 1 >> >>
Vec3_add(u, v) == [c \in 1 .. 3 |-> f32_add(u[c], v[c])]
RECURSIVE Vec3_sum(_)
Vec3_sum(vs) ==
    IF vs = << >> THEN Vec3_zero
    ELSE Vec3_add(Vec3_sum(SubSeq(vs, 1, Len(vs) - 1)), vs[Len(vs)])

\* Vertex::position as a Vec3.
position(v) == [c \in 1 .. 3 |-> << v.position[c], 1 >>]

\* Mutant of centroid: the mean is taken over the stored attribute sets.
centroid_of_stored_sets(b) ==
    LET sets == Len(b.positions) \div 3
        one_over_n == f32_recip(usize_as_f32(sets))
        vertex_sum == Vec3_sum([k \in 1 .. sets |->
                          [c \in 1 .. 3 |-> << b.positions[3 * (k - 1) + c], 1 >>]])
    IN  [c \in 1 .. 3 |-> f32_mul(one_over_n, vertex_sum[c])]

\* Mesh::centroid: one_over_n * vertex_sum, over self.vertices().
centroid(b) ==
    LET one_over_n == f32_recip(usize_as_f32(vertex_count(b)))
        vs == vertices(b)
        vertex_sum == Vec3_sum([k \in 1 .. Len(vs) |-> position(vs[k])])
    IN  [c \in 1 .. 3 |-> f32_mul(one_over_n, vertex_sum[c])]

---------------------------------------------------------------------------
(* Materials (src/src/material.rs). A HashMap<String, PathBuf> is the      *)
(* function from the keys it holds to their paths; a String or a PathBuf   *)
(* is a string.                                                            *)

DIFFUSE_COLOR_MAP_KEY == "map_Kd"
AMBIENT_COLOR_MAP_KEY == "map_Ka"
SPECULAR_COLOR_MAP_KEY == "map_Ks"
BUMP_MAP_KEY == "bump"
DISPLACEMENT_MAP_KEY == "disp"
NORMAL_MAP_KEY == "norm"
ROUGHNESS_MAP_KEY == "map_Pr"
METALLIC_MAP_KEY == "map_Pm"
SHEEN_MAP_KEY == "map_Ps"
EMISSIVE_MAP_KEY == "map_Ps"

\* The ten maps, each named as its getter and its setter are.
MapNames ==
    {"diffuse_color_map", "ambient_color_map", "specular_color_map",
     "bump_map", "displacement_map", "normal_map", "roughness_map",
     "metallic_map", "sheen_map", "emissive_map"}

\* The key that the getter and the setter of a map pass to the HashMap.
KeyOf(map) ==
    CASE map = "diffuse_color_map"  -> DIFFUSE_COLOR_MAP_KEY
      [] map = "ambient_color_map"  -> AMBIENT_COLOR_MAP_KEY
      [] map = "specular_color_map" -> SPECULAR_COLOR_MAP_KEY
      [] map = "bump_map"           -> BUMP_MAP_KEY
      [] map = "displacement_map"   -> DISPLACEMENT_MAP_KEY
      [] map = "normal_map"         -> NORMAL_MAP_KEY
      [] map = "roughness_map"      -> ROUGHNESS_MAP_KEY
      [] map = "metallic_map"       -> METALLIC_MAP_KEY
      [] map = "sheen_map"          -> SHEEN_MAP_KEY
      [] map = "emissive_map"       -> EMISSIVE_MAP_KEY

\* The paths and the names that callers pass to the builder.
Paths == {"a.png", "b.png"}
Names == {"A", "B"}

\* HashMap::new, HashMap::insert and HashMap::get.
HashMap_new == [k \in {} |-> "a.png"]
insert(maps, key, path) ==
    [k \in (DOMAIN maps) \cup {key} |-> IF k = key THEN path ELSE maps[k]]
get(maps, key) == IF key \in DOMAIN maps THEN Some(maps[key]) ELSE None

\* MaterialBuilder::new: no name, no maps.
MaterialBuilder_new == [mat |-> [name |-> "", maps |-> HashMap_new]]

\* MaterialBuilder::name.
MaterialBuilder_name(b, name) == [mat |-> [b.mat EXCEPT !.name = name]]

\* The ten map setters of MaterialBuilder: each inserts under its key.
set_map(b, map, path) ==
    [mat |-> [b.mat EXCEPT !.maps = insert(@, KeyOf(map), path)]]

\* MaterialBuilder::build.
build(b) == b.mat

\* Material's derived Clone: the name and every entry of the maps are copied.
Material_clone(m) ==
    [name |-> m.name, maps |-> [k \in DOMAIN m.maps |-> m.maps[k]]]

\* MaterialBuilder::from(&Material): the builder holds a clone.
MaterialBuilder_from(m) == [mat |-> Material_clone(m)]

\* Mutant of Material_eq: materials are compared by name.
Material_eq_by_name(a, b) == a.name = b.name

\* Material's derived PartialEq: the names are equal and the maps are, that
\* is, they hold the same number of keys and every key of one is a key of
\* the other with an equal path.
Material_eq(a, b) ==
    /\ a.name = b.name
    /\ Cardinality(DOMAIN a.maps) = Cardinality(DOMAIN b.maps)
    /\ \A k \in DOMAIN a.maps : get(b.maps, k) = Some(a.maps[k])

\* Material::name and the ten map getters of Material.
Material_name(m) == m.name
get_map(m, map) == get(m.maps, KeyOf(map))

---------------------------------------------------------------------------
(* Entities and their shared materials (src/src/entity.rs). An             *)
(* Rc<Material> is the number of its allocation in heap; an allocation     *)
(* holds the strong count and the material, and loses the material when    *)
(* the count falls to zero.                                                *)

\* Most materials allocated in a run.
MaxMaterials == 3
\* Most calls of map setters in a run.
MaxSetters == 2

EntityNames == {"Ent1", "Ent2"}

\* The names make_material gives its materials ("" is the builder's own).
MaterialNames == {"", "A"}

\* The mesh every entity is built with: one triangle over two stored sets.
make_mesh == WithIndices([positions |-> PositionsOf(<<0, 1>>),
                          normals   |-> NormalsOf(<<0, 1>>),
                          texcoords |-> TexcoordsOf(<<0, 1>>)], <<0, 1, 1>>)

\* Rc::new: a new allocation with one strong reference, numbered Len + 1.
Rc_new(h, m) == Append(h, [strong |-> 1, value |-> Some(m)])

\* Mutant of Rc_clone: the copy of the reference is not counted.
Rc_clone_uncounted(h, a) == h

\* Rc::clone: one more strong reference to allocation a.
Rc_clone(h, a) == [h EXCEPT ![a].strong = @ + 1]

\* Dropping an Rc: one strong reference fewer; the last one releases the
\* material.
Rc_drop(h, a) ==
    [h EXCEPT ![a] = IF @.strong = 1 THEN [strong |-> 0, value |-> None]
                     ELSE [@ EXCEPT !.strong = @ - 1]]

Rc_strong_count(h, a) == h[a].strong

\* Entity::new: the three arguments are moved into the fields.
Entity_new(mesh, name, material) ==
    [name |-> name, material |-> material, mesh |-> mesh]

\* Mutant of set_material: the assignment reaches every entity that shares
\* the material of e, as if the shared material itself were replaced.
set_material_of_sharers(ents, e, a) ==
    [f \in DOMAIN ents |->
        IF ents[f] # None /\ ents[f][1].material = ents[e][1].material
        THEN Some([ents[f][1] EXCEPT !.material = a])
        ELSE ents[f]]

\* `ent.material = a`: the public field of one entity is overwritten.
set_material(ents, e, a) ==
    [ents EXCEPT ![e] = Some([@[1] EXCEPT !.material = a])]

---------------------------------------------------------------------------
(* Actions.                                                                *)

\* Mutant of StoreIter: one cursor serves every iterator of the buffer.
StoreIterShared(its, i, it) == [j \in DOMAIN its |-> it]

\* `&mut self` of next(): the call writes the cursor of its own iterator.
StoreIter(its, i, it) == [its EXCEPT ![i] = it]

\* One call of next() on vertex iterator i.
IterNext(i) ==
    /\ ~panicked
    /\ nones[i] < MaxNones
    /\ LET r == DeinterleavedIndexedMeshBufIter_next(iters[i], buf)
       IN  /\ iters' = StoreIter(iters, i, r.iter)
           /\ fault' = IF r.panic THEN "next" ELSE fault
           /\ yielded' = [yielded EXCEPT ![i] = @ \o r.item]
           /\ nones' = [nones EXCEPT ![i] = IF r.item = None /\ ~r.panic
                                              THEN @ + 1 ELSE @]
    /\ UNCHANGED <<centroidOut, builderVars, entityVars>>
    /\ UNCHANGED <<buf, tri, triOut, triNones, ret, col, col2, colIter,
                   colState, stream, stream2>>

\* A fresh iterator takes the place of iterator i: buf.vertices().
IterCreate(i) ==
    /\ ~panicked
    /\ iters[i] # into_iter \/ nones[i] > 0
    /\ iters' = StoreIter(iters, i, into_iter)
    /\ yielded' = [yielded EXCEPT ![i] = << >>]
    /\ nones' = [nones EXCEPT ![i] = 0]
    /\ UNCHANGED <<centroidOut, builderVars, entityVars>>
    /\ UNCHANGED <<buf, tri, triOut, triNones, fault, ret,
                   col, col2, colIter, colState, stream, stream2>>

\* One call of next() on the triangle iterator.
TriNext ==
    /\ ~panicked
    /\ triNones < MaxNones
    /\ LET r == TriangleMeshIter_next(tri, buf)
       IN  /\ tri' = r.iter
           /\ fault' = IF r.panic THEN "triangle_next" ELSE fault
           /\ triOut' = triOut \o r.item
           /\ triNones' = IF r.item = None /\ ~r.panic THEN triNones + 1
                          ELSE triNones
    /\ UNCHANGED <<centroidOut, builderVars, entityVars>>
    /\ UNCHANGED <<buf, iters, yielded, nones, ret, col, col2, colIter,
                   colState, stream, stream2>>

\* A direct call of vertex_at with any offset.
CallVertexAt(offset) ==
    /\ ~panicked
    /\ fault' = IF vertex_at_panics(buf, offset) THEN "vertex_at" ELSE fault
    /\ ret' = [called |-> TRUE, offset |-> offset,
               vertex |-> IF vertex_at_panics(buf, offset) THEN None
                          ELSE Some(vertex_at(buf, offset))]
    /\ UNCHANGED <<centroidOut, builderVars, entityVars>>
    /\ UNCHANGED <<buf, iters, yielded, nones, tri, triOut, triNones,
                   col, col2, colIter, colState, stream, stream2>>

\* buf.vertices().collect() begins: from_iter makes the empty buffer and
\* takes the iterator.
CollectStart ==
    /\ ~panicked
    /\ colState = "idle"
    /\ col' = EmptyBuf
    /\ colIter' = into_iter
    /\ colState' = "first"
    /\ UNCHANGED <<centroidOut, builderVars, entityVars>>
    /\ UNCHANGED <<buf, iters, yielded, nones, tri, triOut, triNones, fault,
                   ret, col2, stream, stream2>>

\* One turn of for_each in the first from_iter: the next vertex of
\* buf.vertices() is pushed to col, or the stream has ended.
CollectStep ==
    /\ ~panicked
    /\ colState = "first"
    /\ LET r == DeinterleavedIndexedMeshBufIter_next(colIter, buf)
       IN  /\ colIter' = r.iter
           /\ fault' = IF r.panic THEN "from_iter" ELSE fault
           /\ IF r.item = None
              THEN /\ colState' = IF r.panic THEN colState ELSE "collected"
                   /\ UNCHANGED <<col, stream>>
              ELSE /\ col' = from_iter_push(col, r.item[1])
                   /\ stream' = Append(stream, r.item[1])
                   /\ UNCHANGED colState
    /\ UNCHANGED <<centroidOut, builderVars, entityVars>>
    /\ UNCHANGED <<buf, iters, yielded, nones, tri, triOut, triNones, ret,
                   col2, stream2>>

\* col.vertices().collect() begins.
CollectAgain ==
    /\ ~panicked
    /\ colState = "collected"
    /\ col2' = EmptyBuf
    /\ colIter' = into_iter
    /\ colState' = "second"
    /\ UNCHANGED <<centroidOut, builderVars, entityVars>>
    /\ UNCHANGED <<buf, iters, yielded, nones, tri, triOut, triNones, fault,
                   ret, col, stream, stream2>>

\* One turn of for_each in the second from_iter, over col.vertices().
CollectAgainStep ==
    /\ ~panicked
    /\ colState = "second"
    /\ LET r == DeinterleavedIndexedMeshBufIter_next(colIter, col)
       IN  /\ colIter' = r.iter
           /\ fault' = IF r.panic THEN "from_iter" ELSE fault
           /\ IF r.item = None
              THEN /\ colState' = IF r.panic THEN colState ELSE "done"
                   /\ UNCHANGED <<col2, stream2>>
              ELSE /\ col2' = from_iter_push(col2, r.item[1])
                   /\ stream2' = Append(stream2, r.item[1])
                   /\ UNCHANGED colState
    /\ UNCHANGED <<centroidOut, builderVars, entityVars>>
    /\ UNCHANGED <<buf, iters, yielded, nones, tri, triOut, triNones, ret,
                   col, stream>>

\* make_material of the creator: let mat = Rc::new(builder.build()).
NewMaterial(n) ==
    /\ Len(heap) < MaxMaterials
    /\ heap' = Rc_new(heap, build(MaterialBuilder_name(MaterialBuilder_new, n)))
    /\ held' = held \cup {Len(heap) + 1}
    /\ UNCHANGED <<entities, lastReassign, meshVars, centroidOut, builderVars>>

\* Entity::new(make_mesh(), e, Rc::clone(&mat)) with a material the creator
\* holds.
NewEntity(e, a) ==
    /\ entities[e] = None
    /\ a \in held
    /\ heap' = Rc_clone(heap, a)
    /\ entities' = [entities EXCEPT ![e] = Some(Entity_new(make_mesh, e, a))]
    /\ UNCHANGED <<held, lastReassign, meshVars, centroidOut, builderVars>>

\* ent.material = make_material(): the new reference is made, then the old
\* one is dropped by the assignment.
ReassignFresh(e, n) ==
    /\ entities[e] # None
    /\ Len(heap) < MaxMaterials
    /\ heap' = Rc_drop(Rc_new(heap, build(MaterialBuilder_name(MaterialBuilder_new, n))),
                       entities[e][1].material)
    /\ entities' = set_material(entities, e, Len(heap) + 1)
    /\ lastReassign' = Some([entity |-> e, old |-> entities[e][1].material])
    /\ UNCHANGED <<held, meshVars, centroidOut, builderVars>>

\* ent.material = Rc::clone(&mat) with a material the creator holds.
ReassignShared(e, a) ==
    /\ entities[e] # None
    /\ a \in held
    /\ heap' = Rc_drop(Rc_clone(heap, a), entities[e][1].material)
    /\ entities' = set_material(entities, e, a)
    /\ lastReassign' = Some([entity |-> e, old |-> entities[e][1].material])
    /\ UNCHANGED <<held, meshVars, centroidOut, builderVars>>

\* The creator's handle of a material goes out of scope.
DropHandle(a) ==
    /\ a \in held
    /\ heap' = Rc_drop(heap, a)
    /\ held' = held \ {a}
    /\ UNCHANGED <<entities, lastReassign, meshVars, centroidOut, builderVars>>

\* An entity goes out of scope, and its fields with it.
DropEntity(e) ==
    /\ entities[e] # None
    /\ heap' = Rc_drop(heap, entities[e][1].material)
    /\ entities' = [entities EXCEPT ![e] = None]
    /\ UNCHANGED <<held, lastReassign, meshVars, centroidOut, builderVars>>

\* A call of buf.centroid().
CallCentroid ==
    /\ ~panicked
    /\ centroidOut = None
    /\ centroidOut' = Some(centroid(buf))
    /\ UNCHANGED <<meshVars, builderVars, entityVars>>

\* MaterialBuilder::new().
BuilderNew ==
    /\ phase = "start"
    /\ builder' = Some(MaterialBuilder_new)
    /\ phase' = "new"
    /\ UNCHANGED <<mat, lastSet, nameSet, lastCall, setterCalls, derivedFrom,
                   result, meshVars, centroidOut, entityVars>>

\* builder.name(n).
SetName(n) ==
    /\ phase \in {"new", "derived"}
    /\ builder' = Some(MaterialBuilder_name(builder[1], n))
    /\ nameSet' = IF phase = "derived" THEN Some(n) ELSE nameSet
    /\ UNCHANGED <<mat, phase, lastSet, lastCall, setterCalls, derivedFrom,
                   result, meshVars, centroidOut, entityVars>>

\* One of the ten map setters, with any path.
SetMap(map, path) ==
    /\ phase \in {"new", "derived"}
    /\ setterCalls < MaxSetters
    /\ builder' = Some(set_map(builder[1], map, path))
    /\ lastSet' = IF phase = "derived" THEN [lastSet EXCEPT ![map] = Some(path)]
                  ELSE lastSet
    /\ lastCall' = Some([map |-> map, path |-> path, before |-> builder[1],
                         after |-> set_map(builder[1], map, path)])
    /\ setterCalls' = setterCalls + 1
    /\ UNCHANGED <<mat, phase, nameSet, derivedFrom, result, meshVars,
                   centroidOut, entityVars>>

\* builder.build(): the first builder gives the material m, the derived
\* builder the derived material.
Build ==
    /\ phase \in {"new", "derived"}
    /\ IF phase = "new"
       THEN /\ mat' = Some(build(builder[1]))
            /\ phase' = "built"
            /\ UNCHANGED result
       ELSE /\ result' = Some(build(builder[1]))
            /\ phase' = "done"
            /\ UNCHANGED mat
    /\ builder' = None
    /\ UNCHANGED <<lastSet, nameSet, lastCall, setterCalls, derivedFrom,
                   meshVars, centroidOut, entityVars>>

\* MaterialBuilder::from(&m).
From ==
    /\ phase = "built"
    /\ builder' = Some(MaterialBuilder_from(mat[1]))
    /\ phase' = "derived"
    /\ derivedFrom' = mat
    /\ UNCHANGED <<mat, lastSet, nameSet, lastCall, setterCalls, result,
                   meshVars, centroidOut, entityVars>>

---------------------------------------------------------------------------
(* Specifications.                                                         *)

InitRest ==
    /\ iters = [i \in IterIds |-> into_iter]
    /\ yielded = [i \in IterIds |-> << >>]
    /\ nones = [i \in IterIds |-> 0]
    /\ tri = triangles
    /\ triOut = << >>
    /\ triNones = 0
    /\ fault = "none"
    /\ ret = [called |-> FALSE, offset |-> 0, vertex |-> None]
    /\ col = EmptyBuf
    /\ col2 = EmptyBuf
    /\ colIter = into_iter
    /\ colState = "idle"
    /\ stream = << >>
    /\ stream2 = << >>
    /\ centroidOut = None
    /\ mat = None
    /\ builder = None
    /\ phase = "start"
    /\ lastSet = [m \in MapNames |-> None]
    /\ nameSet = None
    /\ lastCall = None
    /\ setterCalls = 0
    /\ derivedFrom = None
    /\ result = None
    /\ heap = << >>
    /\ held = {}
    /\ entities = [e \in EntityNames |-> None]
    /\ lastReassign = None

\* Several vertex iterators and a triangle iterator over one buffer that
\* satisfies the buffer invariant, called in any order.
Init ==
    /\ ValidBuffer(0, MaxShareIndices)
    /\ InitRest

Next ==
    \/ \E i \in IterIds : IterNext(i)
    \/ \E i \in IterIds : IterCreate(i)
    \/ TriNext

Spec == Init /\ [][Next]_vars

\* A triangle iterator over a buffer that satisfies the buffer invariant.
InitTriangles ==
    /\ ValidBuffer(0, MaxIndices)
    /\ InitRest

NextTriangles == TriNext

SpecTriangles == InitTriangles /\ [][NextTriangles]_vars

\* A vertex iterator and direct calls of vertex_at on any buffer, whether it
\* satisfies the buffer invariant or not.
InitFault ==
    /\ AnyBuffer(MaxTrim, MaxFaultIndices)
    /\ InitRest

NextFault ==
    \/ IterNext("iter")
    \/ \E offset \in 0 .. MaxFaultIndices + 1 : CallVertexAt(offset)

SpecFault == InitFault /\ [][NextFault]_vars

\* The round trip: a buffer that satisfies the buffer invariant is collected
\* from its own vertex stream, and the result is collected once more.
InitCollect ==
    /\ ValidBuffer(MaxTrim, MaxCollect)
    /\ InitRest

NextCollect ==
    \/ CollectStart
    \/ CollectStep
    \/ CollectAgain
    \/ CollectAgainStep

SpecCollect == InitCollect /\ [][NextCollect]_vars

\* A creator that makes materials and entities, shares and reassigns the
\* materials and drops what it holds, in any order.
InitEntity ==
    /\ buf = EmptyBuf
    /\ InitRest

NextEntity ==
    \/ \E n \in MaterialNames : NewMaterial(n)
    \/ \E e \in EntityNames : \E a \in held : NewEntity(e, a)
    \/ \E e \in EntityNames : \E n \in MaterialNames : ReassignFresh(e, n)
    \/ \E e \in EntityNames : \E a \in held : ReassignShared(e, a)
    \/ \E a \in held : DropHandle(a)
    \/ \E e \in EntityNames : DropEntity(e)

SpecEntity == InitEntity /\ [][NextEntity]_vars

\* A material is built, and a second one is derived from it with
\* MaterialBuilder::from; setters are called in any order on both builders.
InitMaterial ==
    /\ buf = EmptyBuf
    /\ InitRest

NextMaterial ==
    \/ BuilderNew
    \/ \E n \in Names : SetName(n)
    \/ \E map \in MapNames : \E path \in Paths : SetMap(map, path)
    \/ Build
    \/ From

SpecMaterial == InitMaterial /\ [][NextMaterial]_vars

\* The centroid of a buffer that satisfies the buffer invariant.
InitCentroid ==
    /\ ValidBuffer(0, MaxMeanIndices)
    /\ InitRest

NextCentroid == CallCentroid

SpecCentroid == InitCentroid /\ [][NextCentroid]_vars

---------------------------------------------------------------------------
(* What the claims speak of.                                               *)

\* The buffer invariant of the data model.
BufferInvariant(b) ==
    \A k \in 1 .. Len(b.indices) :
        LET i == b.indices[k]
        IN  /\ 3 * (i + 1) <= Len(b.positions)
            /\ 3 * (i + 1) <= Len(b.normals)
            /\ 2 * (i + 1) <= Len(b.texcoords)

\* Entry `offset` of the index sequence is missing or breaks the invariant.
Offending(b, offset) ==
    \/ offset >= Len(b.indices)
    \/ LET i == b.indices[offset + 1]
       IN  \/ 3 * (i + 1) > Len(b.positions)
           \/ 3 * (i + 1) > Len(b.normals)
           \/ 2 * (i + 1) > Len(b.texcoords)

\* The first offending entry of the index sequence, or its length.
FirstOffending(b) ==
    IF \E k \in 0 .. Len(b.indices) - 1 : Offending(b, k)
    THEN CHOOSE k \in 0 .. Len(b.indices) - 1 :
            /\ Offending(b, k)
            /\ \A j \in 0 .. k - 1 : ~Offending(b, j)
    ELSE Len(b.indices)

\* Attribute set i of buffer b, as a vertex.
AttributeSet(b, i) ==
    [position  |-> SubSeq(b.positions, 3 * i + 1, 3 * i + 3),
     normal    |-> SubSeq(b.normals, 3 * i + 1, 3 * i + 3),
     texcoords |-> SubSeq(b.texcoords, 2 * i + 1, 2 * i + 2)]

\* The vertex that entry k (from 0) of the index sequence denotes.
ExpectedVertex(b, k) == AttributeSet(b, b.indices[k + 1])

\* The index sequence 0, 1, ..., n - 1.
Identity(n) == [k \in 1 .. n |-> k - 1]

\* Buffer c stores exactly the vertices s, one attribute set each, in order.
StoresStream(c, s) ==
    /\ Len(c.positions) = 3 * Len(s)
    /\ Len(c.normals) = 3 * Len(s)
    /\ Len(c.texcoords) = 2 * Len(s)
    /\ \A k \in 0 .. Len(s) - 1 : AttributeSet(c, k) = s[k + 1]

SameAttributes(c, b) ==
    /\ c.positions = b.positions
    /\ c.normals = b.normals
    /\ c.texcoords = b.texcoords

IsPrefix(s, t) == Len(s) <= Len(t) /\ s = SubSeq(t, 1, Len(s))

FirstCollected == colState \in {"collected", "second", "done"}

---------------------------------------------------------------------------
(* The claims.                                                             *)

\* C1 (SpecTriangles): for a buffer satisfying the buffer invariant with
\* n = len(indices), triangle_count() is n div 3 (n = 3 * count + r with r
\* in 0..2); triangles() never yields more triangles than that, and by its
\* first None it has yielded exactly triangle_count() triangles, without
\* faulting.
C1_TriangleCount ==
    LET n == Len(buf.indices)
    IN  /\ \E r \in 0 .. 2 : 3 * triangle_count(buf) + r = n
        /\ Len(triOut) <= triangle_count(buf)
        /\ triNones >= 1 => Len(triOut) = triangle_count(buf)
        /\ n = 0 /\ triNones >= 1 => triOut = << >>
        /\ fault = "none"

\* Five index entries: one triangle was yielded, two vertices are left out.
C1_Witness ==
    /\ triNones >= 1
    /\ Len(buf.indices) % 3 = 2
    /\ Len(triOut) >= 1

\* C2 (SpecFault): over a buffer that satisfies the buffer invariant the
\* vertex iterator does not fault, its k-th vertex is assembled from the
\* slices of positions, normals and texcoords at i = indices[k], it has
\* yielded len(indices) vertices when it returns None, and vertex_count()
\* is len(indices), the number of vertices yielded.
C2_Vertices ==
    BufferInvariant(buf) =>
        LET y == yielded["iter"]
        IN  /\ fault # "next"
            /\ Len(y) <= Len(buf.indices)
            /\ \A k \in 1 .. Len(y) : y[k] = ExpectedVertex(buf, k - 1)
            /\ iters["iter"].next_indices_idx = Len(y)
            /\ vertex_count(buf) = Len(buf.indices)
            /\ nones["iter"] >= 1 => Len(y) = vertex_count(buf)

\* A valid buffer of three entries, not all the same, iterated to the end.
C2_Witness ==
    /\ BufferInvariant(buf)
    /\ nones["iter"] >= 1
    /\ Len(yielded["iter"]) = 3
    /\ buf.indices[1] # buf.indices[2]

\* C3 (SpecTriangles): with v the vertices the source yields, the j-th
\* triangle is (v[3j], v[3j+1], v[3j+2]); once the iterator has returned
\* None the triangles are the first 3 * (n div 3) source vertices, and when
\* n is a multiple of 3 the source is consumed with none left over.
C3_Grouping ==
    LET v == vertices(buf)
        n == Len(v)
    IN  /\ \A j \in 0 .. Len(triOut) - 1 :
              /\ 3 * j + 3 <= n
              /\ triOut[j + 1] = << v[3 * j + 1], v[3 * j + 2], v[3 * j + 3] >>
        /\ triNones >= 1 => Len(triOut) = n \div 3
        /\ triNones >= 1 /\ n % 3 = 0 =>
              /\ 3 * Len(triOut) = n
              /\ tri.vertex_iter.next_indices_idx = n

\* Two different triangles were yielded before the None.
C3_Witness ==
    /\ triNones >= 1
    /\ Len(triOut) = 2
    /\ triOut[1] # triOut[2]
    /\ triOut[1][1] # triOut[1][2]

\* C4 (SpecCollect): the index sequence from_iter builds is 0, 1, ..., n - 1
\* for a stream of any length n, at every turn of its loop.
C4_IdentityIndices ==
    colState # "idle" => col.indices = Identity(Len(stream))

\* C5 (SpecCollect): from_iter consumes its stream once, in order, and
\* stores every vertex consumed as an attribute set of its own, identical
\* vertices included: the sequences have lengths 3n, 3n, 2n (and n for
\* indices), set k holds the k-th vertex, and the buffer satisfies the
\* buffer invariant. The same holds for the second collection.
C5_NoDeduplication ==
    /\ StoresStream(col, stream)
    /\ Len(col.indices) = Len(stream)
    /\ BufferInvariant(col)
    /\ LET v == vertices(buf)
       IN  /\ IsPrefix(stream, v)
           /\ FirstCollected => stream = v
    /\ StoresStream(col2, stream2)
    /\ Len(col2.indices) = Len(stream2)
    /\ BufferInvariant(col2)
    /\ colState = "done" => stream2 = vertices(col)

\* A stream whose first two vertices are identical was collected.
C5_Witness ==
    /\ colState = "collected"
    /\ Len(stream) >= 3
    /\ stream[1] = stream[2]
    /\ stream[2] # stream[3]

\* C6 as claimed (SpecCollect): the collected buffer has the attribute
\* sequences of the original if and only if the original's index sequence
\* is the identity.
C6_Original ==
    colState = "collected" =>
        (SameAttributes(col, buf) <=> buf.indices = Identity(Len(buf.indices)))

\* C6 as amended (SpecCollect): the collected buffer has the attribute
\* sequences of the original if and only if the original stores exactly
\* n = len(indices) attribute sets and every entry k of its index sequence
\* denotes an attribute set with the values of set k; so they are the same
\* when the index sequence is the identity and nothing more is stored.
C6_RoundTrip ==
    colState = "collected" =>
        LET n == Len(buf.indices)
            exact == /\ Len(buf.positions) = 3 * n
                     /\ Len(buf.normals) = 3 * n
                     /\ Len(buf.texcoords) = 2 * n
        IN  /\ SameAttributes(col, buf) <=>
                 /\ exact
                 /\ \A k \in 0 .. n - 1 :
                       ExpectedVertex(buf, k) = AttributeSet(buf, k)
            /\ buf.indices = Identity(n) /\ exact => SameAttributes(col, buf)

\* The index sequence is not the identity, yet the attribute sequences are
\* the same: two stored sets hold the same values.
C6_Witness ==
    /\ colState = "collected"
    /\ Len(buf.indices) >= 2
    /\ buf.indices # Identity(Len(buf.indices))
    /\ SameAttributes(col, buf)

\* C7 (SpecCollect): the collected buffer has the vertex count of the
\* original, one attribute set per entry of the original's index sequence,
\* and the original's vertex stream; collecting it once more gives a buffer
\* equal to it in all four sequences.
C7_StreamPreserved ==
    /\ FirstCollected =>
          /\ vertex_count(col) = vertex_count(buf)
          /\ Len(col.positions) = 3 * Len(buf.indices)
          /\ Len(col.normals) = 3 * Len(buf.indices)
          /\ Len(col.texcoords) = 2 * Len(buf.indices)
          /\ vertices(col) = vertices(buf)
    /\ colState = "done" =>
          /\ stream2 = stream
          /\ col2 = col

C9_State ==
    LET v == vertices(buf)
    IN  /\ \A i \in IterIds :
              /\ IsPrefix(yielded[i], v)
              /\ iters[i].next_indices_idx = Len(yielded[i])
              /\ nones[i] >= 1 => yielded[i] = v
        /\ \A j \in 0 .. Len(triOut) - 1 :
              /\ 3 * j + 3 <= Len(v)
              /\ triOut[j + 1] = << v[3 * j + 1], v[3 * j + 2], v[3 * j + 3] >>
        /\ triNones >= 1 => Len(triOut) = Len(v) \div 3
        /\ fault = "none"

\* C9 (Spec): whatever the order of the next() calls on two vertex
\* iterators and a triangle iterator over one buffer, each has yielded a
\* prefix of the sequence it yields alone (all of it once it returned
\* None), a fresh iterator starts at the first index entry, a call moves
\* no other iterator, and no step changes the buffer.
C9_NoInterference ==
    /\ []C9_State
    /\ [][/\ buf' = buf
          /\ \A i \in IterIds :
                /\ (iters'[i] # iters[i] /\ iters'[i] = into_iter) =>
                      yielded'[i] = << >>
                /\ \A j \in IterIds \ {i} :
                      iters'[i] # iters[i] => iters'[j] = iters[j]
          /\ tri' # tri => iters' = iters]_vars

\* Three iterators at three different places of the same buffer.
C9_Witness ==
    /\ Len(yielded["iter"]) = 3
    /\ Len(yielded["iter2"]) = 1
    /\ Len(triOut) = 1
    /\ nones["iter"] >= 1

\* C10 (SpecFault): a direct call vertex_at(offset) panics when the entry
\* is missing or breaks the buffer invariant for one of the three attribute
\* sequences, and returns the vertex of the slices at idx otherwise; the
\* vertex iterator yields the vertices before the first offending entry,
\* panics at that entry, and neither passes it nor reports the end there.
C10_Fault ==
    /\ ret.called =>
          IF Offending(buf, ret.offset)
          THEN fault = "vertex_at" /\ ret.vertex = None
          ELSE /\ ret.vertex = Some(ExpectedVertex(buf, ret.offset))
               /\ fault # "vertex_at"
    /\ LET y == yielded["iter"]
           f == FirstOffending(buf)
       IN  /\ Len(y) <= f
           /\ \A k \in 1 .. Len(y) : y[k] = ExpectedVertex(buf, k - 1)
           /\ fault = "next" =>
                 /\ f < Len(buf.indices)
                 /\ Len(y) = f
                 /\ nones["iter"] = 0
           /\ fault # "next" => iters["iter"].next_indices_idx = Len(y)
           /\ nones["iter"] >= 1 => f = Len(buf.indices) /\ Len(y) = f

\* The iterator panicked at an entry that breaks the invariant for the
\* texture coordinates alone, after it had yielded the entries before it.
C10_Witness ==
    /\ fault = "next"
    /\ Len(yielded["iter"]) = 2
    /\ LET i == buf.indices[3]
       IN  /\ 3 * (i + 1) <= Len(buf.positions)
           /\ 3 * (i + 1) <= Len(buf.normals)
           /\ 2 * (i + 1) > Len(buf.texcoords)

\* The entities that are alive.
Alive == { e \in EntityNames : entities[e] # None }

\* The holders of allocation a: the creator's handle and every entity whose
\* material field refers to a.
Holders(a) ==
    (IF a \in held THEN 1 ELSE 0)
    + Cardinality({ e \in Alive : entities[e][1].material = a })

\* C11: the live-reference count of a material equals the number of its
\* holders (the creator's handle plus each entity whose material field
\* refers to it), every holder refers to a material that is not released,
\* and a material is released exactly when its count is zero. So a material
\* held by the creator and shared by two entities has count 3, and after
\* both entities were given fresh materials it has count 1 and each fresh
\* material has count 1.
C11_SharedLifetime ==
    /\ held \subseteq 1 .. Len(heap)
    /\ \A e \in Alive : entities[e][1].material \in 1 .. Len(heap)
    /\ \A a \in 1 .. Len(heap) :
        /\ Rc_strong_count(heap, a) = Holders(a)
        /\ heap[a].value = None <=> Rc_strong_count(heap, a) = 0
    /\ \A a \in held :
        /\ (\A e \in EntityNames : e \in Alive /\ entities[e][1].material = a)
              => Rc_strong_count(heap, a) = 3
        /\ (\A e \in EntityNames :
               /\ e \in Alive
               /\ entities[e][1].material # a
               /\ entities[e][1].material \notin held
               /\ \A f \in Alive \ {e} :
                      entities[f][1].material # entities[e][1].material)
              => /\ Rc_strong_count(heap, a) = 1
                 /\ \A e \in Alive :
                        Rc_strong_count(heap, entities[e][1].material) = 1

\* The creator holds a material with count 1 while both entities refer to
\* fresh materials of their own, each with count 1.
C11_Witness ==
    /\ held = {1}
    /\ Alive = EntityNames
    /\ entities["Ent1"][1].material = 2
    /\ entities["Ent2"][1].material = 3
    /\ \A a \in 1 .. 3 : Rc_strong_count(heap, a) = 1

\* The maps that a setter of the derived builder was called for.
Overridden == { map \in MapNames : lastSet[map] # None }

\* C12: after MaterialBuilder::from(&m), any sequence of map setters and
\* build(), the source material m is as it was, the derived material has the
\* name of m (when the name setter was not called), the value of m for every
\* map whose setter was not called and, for every map whose setter was
\* called, the path of the last call of that setter.
C12_Derive ==
    phase = "done" =>
        LET m == derivedFrom[1]
            d == result[1]
        IN  /\ mat = Some(m)
            /\ nameSet = None => Material_name(d) = Material_name(m)
            /\ \A map \in MapNames :
                   get_map(d, map) = IF map \in Overridden THEN lastSet[map]
                                     ELSE get_map(m, map)

\* C13: the ten maps are stored under ten distinct keys, emissive under
\* map_Ke and sheen under map_Ps; a call of any of the ten setters with path
\* p makes the getter of that map return p and leaves the results of the
\* other nine getters as they were.
C13_IndependentMaps ==
    lastCall # None =>
        LET c == lastCall[1]
        IN  /\ \A other \in MapNames \ {c.map} : KeyOf(other) # KeyOf(c.map)
            /\ c.map = "emissive_map"
                  => get(build(c.after).maps, "map_Ke") = Some(c.path)
            /\ c.map = "sheen_map"
                  => get(build(c.after).maps, "map_Ps") = Some(c.path)
            /\ get_map(build(c.after), c.map) = Some(c.path)
            /\ \A other \in MapNames \ {c.map} :
                   get_map(build(c.after), other)
                       = get_map(build(c.before), other)

\* C14: materials are equal exactly when their names are equal and their
\* maps hold the same keys with the same paths. A clone of m and the
\* material built from MaterialBuilder::from(&m) without a setter equal m; a
\* material derived from m by a new name, or by setting one map to a path
\* that is not m's value for that map, does not equal m.
C14_StructuralEquality ==
    phase = "done" =>
        LET m == derivedFrom[1]
            d == result[1]
        IN  /\ Material_eq(d, m) <=>
                  /\ Material_name(d) = Material_name(m)
                  /\ DOMAIN d.maps = DOMAIN m.maps
                  /\ \A k \in DOMAIN m.maps : d.maps[k] = m.maps[k]
            /\ Material_eq(Material_clone(m), m)
            /\ (Overridden = {} /\ nameSet = None) => Material_eq(d, m)
            /\ (nameSet # None /\ nameSet[1] # Material_name(m))
                  => ~Material_eq(d, m)
            /\ \A map \in MapNames :
                   (Overridden = {map} /\ lastSet[map] # get_map(m, map))
                       => ~Material_eq(d, m)

\* A material was derived from a material that has a path for some map by
\* setting that map, and no other, to another path.
C14_Witness ==
    /\ phase = "done"
    /\ nameSet = None
    /\ \E map \in MapNames :
           /\ Overridden = {map}
           /\ get_map(derivedFrom[1], map) # None
           /\ lastSet[map] # get_map(derivedFrom[1], map)
           /\ ~Material_eq(result[1], derivedFrom[1])

\* C15: a step that changes the material reference of an entity leaves the
\* name and the mesh of that entity as they were, leaves every other entity
\* as it was (an entity that shared the old material still refers to it),
\* leaves every other material with the name and the maps it had, and the
\* old material too as long as anyone still holds it.
C15_ReassignFrame ==
    [][\A e \in EntityNames :
          (/\ entities[e] # None
           /\ entities'[e] # None
           /\ entities'[e][1].material # entities[e][1].material)
          => LET old == entities[e][1].material
             IN  /\ entities'[e][1].name = entities[e][1].name
                 /\ entities'[e][1].mesh = entities[e][1].mesh
                 /\ \A f \in EntityNames \ {e} : entities'[f] = entities[f]
                 /\ held' = held
                 /\ \A a \in 1 .. Len(heap) :
                        a # old => heap'[a].value = heap[a].value
                 /\ (\/ old \in held
                     \/ \E f \in EntityNames \ {e} :
                            entities[f] # None /\ entities[f][1].material = old)
                       => /\ heap[old].value # None
                          /\ heap'[old].value = heap[old].value]_vars

\* Ent1 was reassigned away from the material that the creator holds and
\* Ent2 still refers to.
C15_Witness ==
    /\ lastReassign # None
    /\ lastReassign[1].entity = "Ent1"
    /\ lastReassign[1].old \in held
    /\ entities["Ent1"] # None
    /\ entities["Ent2"] # None
    /\ entities["Ent1"][1].material # lastReassign[1].old
    /\ entities["Ent2"][1].material = lastReassign[1].old
    /\ heap[lastReassign[1].old].value # None

\* The cursor of every vertex iterator is within 0 .. len(indices) and
\* counts the vertices the iterator has returned; an iterator that has
\* returned None has returned len(indices) vertices.
C16_State ==
    \A i \in IterIds :
        /\ 0 <= iters[i].next_indices_idx
        /\ iters[i].next_indices_idx <= Len(buf.indices)
        /\ Len(yielded[i]) = iters[i].next_indices_idx
        /\ nones[i] >= 1 => Len(yielded[i]) = Len(buf.indices)

\* C16 (Spec): on a buffer satisfying the buffer invariant the cursor of a
\* vertex iterator stays within 0 .. len(indices); a call of next() that
\* returns a vertex raises it by exactly 1 and happens only below
\* len(indices), a call that returns None leaves it as it is and happens
\* only at len(indices); so the iterator returns len(indices) vertices and
\* then None on every call (an iterator over an empty buffer at once).
C16_Cursor ==
    /\ []C16_State
    /\ [][\A i \in IterIds :
            /\ Len(yielded'[i]) > Len(yielded[i]) =>
                  /\ Len(yielded'[i]) = Len(yielded[i]) + 1
                  /\ iters[i].next_indices_idx < Len(buf.indices)
                  /\ iters'[i].next_indices_idx = iters[i].next_indices_idx + 1
                  /\ nones[i] = 0
            /\ nones'[i] > nones[i] =>
                  /\ nones'[i] = nones[i] + 1
                  /\ iters[i].next_indices_idx = Len(buf.indices)
                  /\ iters'[i] = iters[i]
                  /\ yielded'[i] = yielded[i]
            /\ (iters'[i] # iters[i] /\ Len(yielded'[i]) <= Len(yielded[i])) =>
                  /\ iters'[i] = into_iter
                  /\ yielded'[i] = << >>
                  /\ nones'[i] = 0]_vars

\* An iterator has returned every vertex of a buffer with some index entries
\* and then None twice, its cursor resting at len(indices).
C16_Witness ==
    /\ Len(buf.indices) >= 2
    /\ nones["iter2"] = 2
    /\ Len(yielded["iter2"]) = Len(buf.indices)
    /\ iters["iter2"].next_indices_idx = Len(buf.indices)

\* The exact sum of component c of one position per index entry.
RECURSIVE StreamSum(_, _, _)
StreamSum(b, c, k) ==
    IF k = 0 THEN 0
    ELSE StreamSum(b, c, k - 1) + b.positions[3 * b.indices[k] + c]

\* The f32 sum of the same positions, added one by one from zero in the
\* order of the index entries.
RECURSIVE StreamSumF32(_, _, _)
StreamSumF32(b, c, k) ==
    IF k = 0 THEN << 0, 1 >>
    ELSE f32_add(StreamSumF32(b, c, k - 1),
                 << b.positions[3 * b.indices[k] + c], 1 >>)

Abs(x) == IF x < 0 THEN 0 - x ELSE x

=============================================================================
